---- MODULE Spec2Model ----
(***************************************************************************)
(* Model of src/app.py: a Streamlit page that inspects a video URL, lists  *)
(* download options and fetches the chosen one.                            *)
(*                                                                         *)
(* Text (URLs, header values, HTML, playlists, response bodies) is         *)
(* modelled as TLA+ strings and handled character by character, so that    *)
(* prefix/suffix tests, urljoin, splitext, splitlines and the two regular  *)
(* expressions do what the Python code does.  The Russian labels and       *)
(* messages of the source are written in Latin letters.                    *)
(***************************************************************************)
EXTENDS Integers, Sequences, FiniteSets, TLC

VARIABLES
    url,               \* st.text_input value of the current script run
    use_ytdlp,         \* st.checkbox value of the current script run
    download_options,  \* st.session_state["download_options"]
    selected_index,    \* position the user picked in the select box (0: none)
    env,               \* what the outside world answers during the action
    requests,          \* requests issued during the last action, in order
    result,            \* value returned by the function the last action called
    message,           \* banner shown by the last action (st.error/warning/success)
    offered,           \* st.download_button of the last run, or NoFile
    action             \* the last action taken

vars == <<url, use_ytdlp, download_options, selected_index, env, requests,
          result, message, offered, action>>

----------------------------------------------------------------------------
(* Bounds of the model *)

MaxTags == 2       \* tags on a modelled HTML page
MaxSegs == 3       \* segment responses the environment may give to one download
MaxVariants == 2   \* stream-info entries of a modelled master playlist
ChunkSize == 4     \* scaled chunk_size of iter_content (1024 * 1024 in the source)

----------------------------------------------------------------------------
(* Python str / bytes primitives *)

\* The Python slice s[m-1:n] of a string (positions from 1, both ends included).
Slice(s, m, n) == IF m > n \/ m > Len(s) THEN "" ELSE SubSeq(s, m, IF n > Len(s) THEN Len(s) ELSE n)

Char(s, i) == Slice(s, i, i)

StartsWith(s, p) == Len(s) >= Len(p) /\ Slice(s, 1, Len(p)) = p

EndsWith(s, p) == Len(s) >= Len(p) /\ Slice(s, Len(s) - Len(p) + 1, Len(s)) = p

Contains(s, sub) == \E i \in 1..(Len(s) - Len(sub) + 1) : Slice(s, i, i + Len(sub) - 1) = sub

\* Positions of s, from position from on, where one of the characters of chars stands.
CharSet(chars) == {Char(chars, k) : k \in 1..Len(chars)}

Positions(s, chars, from) == {i \in from..Len(s) : Char(s, i) \in CharSet(chars)}

Min(S) == CHOOSE m \in S : \A n \in S : m <= n

Max(S) == CHOOSE m \in S : \A n \in S : m >= n

\* str.find for a set of single characters: first position >= from, 0 when none.
FindAny(s, chars, from) == IF Positions(s, chars, from) = {} THEN 0 ELSE Min(Positions(s, chars, from))

\* str.rfind for a single character: last position, 0 when none.
RFind(s, c) == IF Positions(s, c, 1) = {} THEN 0 ELSE Max(Positions(s, c, 1))

UpperAlpha == "ABCDEFGHIJKLMNOPQRSTUVWXYZ"

LowerAlpha == "abcdefghijklmnopqrstuvwxyz"

LowerOf == [c \in CharSet(UpperAlpha) |-> Char(LowerAlpha, Min(Positions(UpperAlpha, c, 1)))]

LowerChar(c) == IF c \in DOMAIN LowerOf THEN LowerOf[c] ELSE c

\* bytes.lower / str.lower, character by character (the string is halved to
\* keep the recursion shallow).
RECURSIVE Lower(_)
Lower(s) ==
    IF Len(s) <= 1 THEN LowerChar(s)
    ELSE Lower(Slice(s, 1, Len(s) \div 2)) \o Lower(Slice(s, Len(s) \div 2 + 1, Len(s)))

Whitespace == " \t\n\r\f"

\* Positions of s where a character stands that is none of chars.
Others(s, chars) == {i \in 1..Len(s) : Char(s, i) \notin CharSet(chars)}

LStrip(s, chars) == IF Others(s, chars) = {} THEN "" ELSE Slice(s, Min(Others(s, chars)), Len(s))

RStrip(s, chars) == IF Others(s, chars) = {} THEN "" ELSE Slice(s, 1, Max(Others(s, chars)))

Strip(s) == RStrip(LStrip(s, Whitespace), Whitespace)

\* The characters of the model in code-point order (the order sorted() uses).
Ascii == "\t\n\f\r !\"#$%&'()" \o "*+,-./0123456789:;<=>?@" \o UpperAlpha \o "[]^_" \o LowerAlpha \o "{|}~"

OrdOf == [c \in CharSet(Ascii) |-> Min(Positions(Ascii, c, 1))]

Ord(c) == OrdOf[c]

\* a < b for str: decided at the first position where they differ; a proper
\* prefix is smaller.
StrLess(a, b) ==
    LET differ == {i \in 1..(IF Len(a) < Len(b) THEN Len(a) ELSE Len(b)) : Char(a, i) # Char(b, i)}
    IN  IF differ = {} THEN Len(a) < Len(b)
        ELSE Ord(Char(a, Min(differ))) < Ord(Char(b, Min(differ)))

RECURSIVE Sorted(_)
Sorted(S) ==
    IF S = {} THEN <<>>
    ELSE LET m == CHOOSE x \in S : \A y \in S \ {x} : StrLess(x, y)
         IN  <<m>> \o Sorted(S \ {m})

\* str.splitlines for the line ends "\n", "\r" and "\r\n".
RECURSIVE SplitLines(_)
SplitLines(s) ==
    IF s = "" THEN <<>>
    ELSE LET e == FindAny(s, "\n\r", 1)
         IN  IF e = 0 THEN <<s>>
             ELSE LET skip == IF Slice(s, e, e + 1) = "\r\n" THEN 2 ELSE 1
                  IN  <<Slice(s, 1, e - 1)>> \o SplitLines(Slice(s, e + skip, Len(s)))

RECURSIVE SplitOn(_, _)
SplitOn(s, c) ==
    LET e == FindAny(s, c, 1)
    IN  IF e = 0 THEN <<s>> ELSE <<Slice(s, 1, e - 1)>> \o SplitOn(Slice(s, e + 1, Len(s)), c)

----------------------------------------------------------------------------
(* urllib.parse and os.path *)

\* The reference carries its own scheme ("http:", "https:", "blob:", ...).
HasScheme(ref) ==
    LET c == FindAny(ref, ":", 1)
    IN  c > 1 /\ Positions(Slice(ref, 1, c - 1), "/?#", 1) = {}

\* Position of the first character after "scheme://authority".
AuthorityEnd(u) ==
    LET start == FindAny(u, ":", 1) + 3
        stop  == FindAny(u, "/?#", start)
    IN  IF stop = 0 THEN Len(u) + 1 ELSE stop

Origin(u) == Slice(u, 1, AuthorityEnd(u) - 1)

\* urlparse(u).path of an absolute URL.
UrlPath(u) ==
    LET start == AuthorityEnd(u)
        stop  == FindAny(u, "?#", start)
    IN  Slice(u, start, IF stop = 0 THEN Len(u) ELSE stop - 1)

\* urljoin(base, ref) for an absolute base and a reference without dot segments.
urljoin(base, ref) ==
    IF ref = "" THEN base
    ELSE IF HasScheme(ref) THEN ref
    ELSE IF StartsWith(ref, "//") THEN Slice(base, 1, FindAny(base, ":", 1)) \o ref
    ELSE IF StartsWith(ref, "/") THEN Origin(base) \o ref
    ELSE IF StartsWith(ref, "?") THEN Origin(base) \o UrlPath(base) \o ref
    ELSE Origin(base) \o Slice(UrlPath(base), 1, RFind(UrlPath(base), "/")) \o
         (IF UrlPath(base) = "" THEN "/" ELSE "") \o ref

basename(path) == Slice(path, RFind(path, "/") + 1, Len(path))

\* os.path.splitext(path): <<root, ext>>; leading dots of the name are no extension.
splitext(path) ==
    LET name == basename(path)
        dot  == RFind(name, ".")
        cut  == Len(path) - Len(name) + dot
    IN  IF dot = 0 \/ LStrip(Slice(name, 1, dot - 1), ".") = ""
        THEN <<path, "">>
        ELSE <<Slice(path, 1, cut - 1), Slice(path, cut, Len(path))>>

----------------------------------------------------------------------------
(* MIME_MAP *)

MIME_MAP == [mp4 |-> "video/mp4", mov |-> "video/quicktime", avi |-> "video/x-msvideo",
             mkv |-> "video/x-matroska", ts |-> "video/mp2t"]

\* MIME_MAP.get(ext, "video/mp4")
MimeOf(ext) == IF ext \in DOMAIN MIME_MAP THEN MIME_MAP[ext] ELSE "video/mp4"

----------------------------------------------------------------------------
(* extract_video_links *)

Quotes == "\"'"

\* One attempt of the pattern  kw [^>]+ attr ["'] ([^"']+) ["']  at position i:
\* the keyword stands at i, at least one character other than ">" follows, then
\* attr, a quote, a non-empty run without quotes, a quote.  [^>]+ is greedy, so
\* of all places where attr can start the last one is taken.
AttrStarts(html, i, kw, attr) ==
    {k \in (i + Len(kw) + 1)..Len(html) :
        /\ Positions(Slice(html, i + Len(kw), k - 1), ">", 1) = {}
        /\ Slice(html, k, k + Len(attr) - 1) = attr
        /\ Positions(Char(html, k + Len(attr)), Quotes, 1) # {}
        /\ FindAny(html, Quotes, k + Len(attr) + 1) > k + Len(attr) + 1}

MatchAt(html, i, kws, attr) ==
    LET hit == {kw \in kws : Slice(html, i, i + Len(kw) - 1) = kw /\ AttrStarts(html, i, kw, attr) # {}}
    IN  IF hit = {} THEN [ok |-> FALSE, group |-> "", end |-> i]
        ELSE LET kw    == CHOOSE w \in hit : TRUE
                 k     == Max(AttrStarts(html, i, kw, attr))
                 open  == k + Len(attr)
                 close == FindAny(html, Quotes, open + 1)
             IN  [ok |-> TRUE, group |-> Slice(html, open + 1, close - 1), end |-> close + 1]

\* re.findall: the groups of the leftmost non-overlapping matches, left to right.
RECURSIVE Findall(_, _, _, _)
Findall(html, from, kws, attr) ==
    LET starts == {i \in from..Len(html) : MatchAt(html, i, kws, attr).ok}
    IN  IF starts = {} THEN <<>>
        ELSE LET m == MatchAt(html, Min(starts), kws, attr)
             IN  <<m.group>> \o Findall(html, m.end, kws, attr)

Range(f) == {f[i] : i \in DOMAIN f}

allowed_ext == {"mp4", "mov", "avi", "mkv", "m3u8", "ts"}

HlsLinkOption(link) ==
    [label |-> "HLS (m3u8)", url |-> link, extension |-> "ts", mime |-> MIME_MAP["ts"], type |-> "hls"]

DirectLinkOption(link, ext) ==
    [label |-> "Video (" \o ext \o ")", url |-> link, extension |-> ext, mime |-> MimeOf(ext), type |-> "direct"]

LinkExt(link) == Lower(LStrip(splitext(UrlPath(link))[2], "."))

RECURSIVE LinkOptions(_)
LinkOptions(links) ==
    IF links = <<>> THEN <<>>
    ELSE LET link == Head(links)
             ext  == LinkExt(link)
         IN  (IF ext \notin allowed_ext THEN <<>>
              ELSE IF ext = "m3u8" THEN <<HlsLinkOption(link)>>
              ELSE <<DirectLinkOption(link, ext)>>) \o LinkOptions(Tail(links))

extract_video_links(html, base_url) ==
    LET candidates ==
            {urljoin(base_url, m) : m \in Range(Findall(html, 1, {"video", "source"}, "src="))}
            \cup {urljoin(base_url, m) : m \in Range(Findall(html, 1, {"<a"}, "href="))}
    IN  LinkOptions(Sorted(candidates))

----------------------------------------------------------------------------
(* requests: the k-th request of an action is answered by net[k]; a request  *)
(* with no answer left raises requests.RequestException.                     *)

HeadReq(u) == [method |-> "HEAD", url |-> u]

GetReq(u) == [method |-> "GET", url |-> u]

\* response.iter_content(chunk_size): the body cut into chunks of that size.
RECURSIVE iter_content(_, _)
iter_content(body, chunk_size) ==
    IF body = "" THEN <<>>
    ELSE <<Slice(body, 1, chunk_size)>> \o iter_content(Slice(body, chunk_size + 1, Len(body)), chunk_size)

\* A buffer that keeps only the chunk written last.
WriteChunksOverwriting(buffer, chunks) ==
    IF chunks = <<>> THEN buffer ELSE chunks[Len(chunks)]

\* for chunk in ...: if chunk: buffer.write(chunk)
RECURSIVE WriteChunks(_, _)
WriteChunks(buffer, chunks) ==
    IF chunks = <<>> THEN buffer
    ELSE WriteChunks(IF Head(chunks) # "" THEN buffer \o Head(chunks) ELSE buffer, Tail(chunks))

\* Return values of the two fetchers: the bytes, or None, or an exception.
Bytes(data, reqs) == [none |-> FALSE, data |-> data, name |-> "", raised |-> FALSE, requests |-> reqs]

None(reqs) == [none |-> TRUE, data |-> "", name |-> "", raised |-> FALSE, requests |-> reqs]

RaisedFetch(reqs) == [none |-> TRUE, data |-> "", name |-> "", raised |-> TRUE, requests |-> reqs]

download_file(u, net) ==
    IF Len(net) < 1 THEN RaisedFetch(<<GetReq(u)>>)
    ELSE IF net[1].status # 200 THEN None(<<GetReq(u)>>)
    ELSE Bytes(WriteChunks("", iter_content(net[1].body, ChunkSize)), <<GetReq(u)>>)

\* segment_urls: the lines that are not empty and do not start with "#".
RECURSIVE SegmentUrls(_, _)
SegmentUrls(playlist_url, lines) ==
    IF lines = <<>> THEN <<>>
    ELSE (IF Head(lines) # "" /\ ~StartsWith(Head(lines), "#")
          THEN <<urljoin(playlist_url, Strip(Head(lines)))>> ELSE <<>>)
         \o SegmentUrls(playlist_url, Tail(lines))

\* A loop over segment_urls that returns what it has on a failed segment.
RECURSIVE FetchSegmentsPartial(_, _, _, _)
FetchSegmentsPartial(segment_urls, net, buffer, reqs) ==
    IF segment_urls = <<>> THEN Bytes(buffer, reqs)
    ELSE LET sent == reqs \o <<GetReq(Head(segment_urls))>>
         IN  IF Len(net) < 1 THEN RaisedFetch(sent)
             ELSE IF net[1].status # 200 THEN Bytes(buffer, sent)
             ELSE FetchSegmentsPartial(Tail(segment_urls), Tail(net),
                                       WriteChunks(buffer, iter_content(net[1].body, ChunkSize)), sent)

\* The loop over segment_urls: one GET per segment, in order, stopped by the
\* first answer that is missing or not 200.
RECURSIVE FetchSegments(_, _, _, _)
FetchSegments(segment_urls, net, buffer, reqs) ==
    IF segment_urls = <<>> THEN Bytes(buffer, reqs)
    ELSE LET sent == reqs \o <<GetReq(Head(segment_urls))>>
         IN  IF Len(net) < 1 THEN RaisedFetch(sent)
             ELSE IF net[1].status # 200 THEN None(sent)
             ELSE FetchSegments(Tail(segment_urls), Tail(net),
                                WriteChunks(buffer, iter_content(net[1].body, ChunkSize)), sent)

download_hls_playlist(playlist_url, net) ==
    IF Len(net) < 1 THEN RaisedFetch(<<GetReq(playlist_url)>>)
    ELSE IF net[1].status # 200 THEN None(<<GetReq(playlist_url)>>)
    ELSE LET segment_urls == SegmentUrls(playlist_url, SplitLines(net[1].body))
         IN  IF segment_urls = <<>> THEN None(<<GetReq(playlist_url)>>)
             ELSE FetchSegments(segment_urls, Tail(net), "", <<GetReq(playlist_url)>>)

----------------------------------------------------------------------------
(* inspect_url *)

Found(options, reqs) == [options |-> options, error |-> "", raised |-> FALSE, requests |-> reqs]

Failed(error, reqs) == [options |-> <<>>, error |-> error, raised |-> FALSE, requests |-> reqs]

RaisedInspect(reqs) == [options |-> <<>>, error |-> "", raised |-> TRUE, requests |-> reqs]

\* resolution of a "#EXT-X-STREAM-INF" line: the text after the first "=" of the
\* last comma-separated part that, stripped, starts with "RESOLUTION=".
RECURSIVE Resolution(_, _)
Resolution(parts, resolution) ==
    IF parts = <<>> THEN resolution
    ELSE Resolution(Tail(parts),
                    IF StartsWith(Strip(Head(parts)), "RESOLUTION=")
                    THEN Slice(Head(parts), FindAny(Head(parts), "=", 1) + 1, Len(Head(parts)))
                    ELSE resolution)

HlsVariantOption(variant_url, resolution) ==
    [label |-> "HLS " \o resolution, url |-> variant_url, extension |-> "ts", mime |-> MIME_MAP["ts"], type |-> "hls"]

\* A playlist scan that takes the variant URL lines as they stand, unresolved.
RECURSIVE VariantOptionsUnresolved(_, _, _)
VariantOptionsUnresolved(u, lines, index) ==
    IF index > Len(lines) THEN <<>>
    ELSE (IF StartsWith(lines[index], "#EXT-X-STREAM-INF") /\ index + 1 <= Len(lines)
          THEN <<HlsVariantOption(Strip(lines[index + 1]),
                                  Resolution(SplitOn(lines[index], ","), "unknown"))>>
          ELSE <<>>)
         \o VariantOptionsUnresolved(u, lines, index + 1)

\* for index, line in enumerate(lines): ...
RECURSIVE VariantOptions(_, _, _)
VariantOptions(u, lines, index) ==
    IF index > Len(lines) THEN <<>>
    ELSE (IF StartsWith(lines[index], "#EXT-X-STREAM-INF") /\ index + 1 <= Len(lines)
          THEN <<HlsVariantOption(urljoin(u, Strip(lines[index + 1])),
                                  Resolution(SplitOn(lines[index], ","), "unknown"))>>
          ELSE <<>>)
         \o VariantOptions(u, lines, index + 1)

HlsFallbackOption(u) ==
    [label |-> "HLS (no quality choice)", url |-> u, extension |-> "ts", mime |-> MIME_MAP["ts"], type |-> "hls"]

OriginalOption(u) ==
    LET ext       == LStrip(splitext(basename(UrlPath(u)))[2], ".")
        extension == IF ext = "" THEN "mp4" ELSE ext
    IN  [label |-> "Original (" \o extension \o ")", url |-> u, extension |-> extension,
         mime |-> MimeOf(extension), type |-> "direct"]

is_m3u8(u, content_type) == Contains(content_type, "mpegurl") \/ EndsWith(Lower(u), ".m3u8")

\* options = extract_video_links(...); if not options: ...; return options, None
PageResult(options, sent) ==
    IF options = <<>> THEN Failed("no links found", sent) ELSE Found(options, sent)

\* A playlist result without the fallback: no variant is a failure.
PlaylistResultStrict(u, options, sent) ==
    IF options # <<>> THEN Found(options, sent) ELSE Failed("no links found", sent)

\* if options: return options, None; otherwise the single fallback option
PlaylistResult(u, options, sent) ==
    IF options # <<>> THEN Found(options, sent) ELSE Found(<<HlsFallbackOption(u)>>, sent)

\* inspect_url from the Content-Type of the probe on: net holds the answers
\* still to come, reqs the requests already sent.
Classify(u, head_response, net, reqs) ==
    LET content_type == Lower(head_response.ctype)
        sent         == reqs \o <<GetReq(u)>>
    IN  IF Contains(content_type, "text/html")
        THEN IF Len(net) < 1 THEN RaisedInspect(sent)
             ELSE IF net[1].status # 200 THEN Failed("page not opened", sent)
             ELSE PageResult(extract_video_links(net[1].body, u), sent)
        ELSE IF is_m3u8(u, content_type)
        THEN IF Len(net) < 1 THEN RaisedInspect(sent)
             ELSE IF net[1].status # 200 THEN Failed("playlist not opened", sent)
             ELSE PlaylistResult(u, VariantOptions(u, SplitLines(net[1].body), 1), sent)
        ELSE Found(<<OriginalOption(u)>>, reqs)

inspect_url(u, net) ==
    IF Len(net) < 1 THEN RaisedInspect(<<HeadReq(u)>>)
    ELSE IF net[1].status \notin {200, 206, 405} THEN Failed("link not opened", <<HeadReq(u)>>)
    ELSE IF net[1].status = 405
    THEN IF Len(net) < 2 THEN RaisedInspect(<<HeadReq(u), GetReq(u)>>)
         ELSE IF net[2].status # 200 THEN Failed("link not opened", <<HeadReq(u), GetReq(u)>>)
         ELSE Classify(u, net[2], Tail(Tail(net)), <<HeadReq(u), GetReq(u)>>)
    ELSE Classify(u, net[1], Tail(net), <<HeadReq(u)>>)

----------------------------------------------------------------------------
(* yt-dlp.  The extractor is part of the outside world: ytdlp says whether   *)
(* the package is installed, whether extract_info raises, the formats it     *)
(* reports, the name prepare_filename gives and the files it leaves behind.  *)

ExtractReq(u) == [method |-> "YTDLP", url |-> u]

\* x or y for strings: "" stands for None and for the empty string.
Or(x, y) == IF x # "" THEN x ELSE y

YtdlpOption(u, fmt) ==
    [label |-> fmt.format_id \o " | " \o Or(fmt.ext, "None") \o " | " \o
               Or(Or(fmt.resolution, fmt.format_note), "unknown"),
     url |-> u, extension |-> Or(fmt.ext, "mp4"), mime |-> MimeOf(Or(fmt.ext, "mp4")),
     type |-> "ytdlp", format_id |-> fmt.format_id]

RECURSIVE YtdlpOptions(_, _)
YtdlpOptions(u, formats) ==
    IF formats = <<>> THEN <<>>
    ELSE (IF Head(formats).vcodec # "none" /\ Head(formats).acodec # "none"
          THEN <<YtdlpOption(u, Head(formats))>> ELSE <<>>)
         \o YtdlpOptions(u, Tail(formats))

get_ytdlp_options(u, ytdlp) ==
    IF ~ytdlp.installed THEN Failed("yt-dlp not installed", <<>>)
    ELSE IF ytdlp.raises THEN RaisedInspect(<<ExtractReq(u)>>)
    ELSE IF YtdlpOptions(u, ytdlp.formats) = <<>> THEN Failed("no combined format", <<ExtractReq(u)>>)
    ELSE Found(YtdlpOptions(u, ytdlp.formats), <<ExtractReq(u)>>)

download_with_ytdlp(u, format_id, ytdlp) ==
    IF ~ytdlp.installed THEN None(<<>>)
    ELSE IF ytdlp.raises THEN RaisedFetch(<<ExtractReq(u)>>)
    ELSE LET named == {i \in DOMAIN ytdlp.files : ytdlp.files[i].name = ytdlp.prepared}
         IN  IF named = {} /\ ytdlp.files = <<>> THEN None(<<ExtractReq(u)>>)
             ELSE LET file == ytdlp.files[IF named = {} THEN 1 ELSE Min(named)]
                  IN  [Bytes(file.data, <<ExtractReq(u)>>) EXCEPT !.name = file.name]

----------------------------------------------------------------------------
(* The page: one script run per user action *)

NoResult == [called |-> FALSE]

NoFile == [present |-> FALSE]

\* A URL check that accepts any scheme.
ValidSchemeAny(u) == HasScheme(u)

ValidScheme(u) == StartsWith(u, "http://") \/ StartsWith(u, "https://")

\* What the select box returns when the user leaves it alone: its first entry.
DefaultIndex(options) == IF options = <<>> THEN 0 ELSE 1

\* if st.button("Proverit ssylku"): ...
InspectHandler(u, yt, e) ==
    /\ url' = u
    /\ use_ytdlp' = yt
    /\ env' = e
    /\ action' = "inspect"
    /\ offered' = NoFile
    /\ IF u = ""
       THEN /\ message' = "URL must not be empty"
            /\ requests' = <<>>
            /\ result' = NoResult
            /\ UNCHANGED download_options
       ELSE IF ~ValidScheme(u)
       THEN /\ message' = "URL must start with http:// or https://"
            /\ requests' = <<>>
            /\ result' = NoResult
            /\ UNCHANGED download_options
       ELSE \E r \in {IF yt THEN get_ytdlp_options(u, e.ytdlp) ELSE inspect_url(u, e.net)} :
                /\ result' = r
                /\ requests' = r.requests
                /\ message' = IF r.raised THEN (IF yt THEN "unexpected error" ELSE "request error")
                              ELSE IF r.error # "" THEN r.error
                              ELSE IF r.options = <<>> THEN "formats not determined"
                              ELSE "formats determined"
                /\ download_options' = IF ~r.raised /\ r.error = "" /\ r.options # <<>>
                                       THEN r.options ELSE download_options
    /\ selected_index' = DefaultIndex(download_options')

\* next((option for option in options if option["label"] == selected_label), None)
SelectedOption(options, selected_label) ==
    options[Min({i \in DOMAIN options : options[i].label = selected_label})]

Fetch(selected_option, e) ==
    IF selected_option.type = "ytdlp"
    THEN download_with_ytdlp(selected_option.url,
                             IF "format_id" \in DOMAIN selected_option THEN selected_option.format_id ELSE "best",
                             e.ytdlp)
    ELSE IF selected_option.type = "hls" THEN download_hls_playlist(selected_option.url, e.net)
    ELSE download_file(selected_option.url, e.net)

\* An HTML check on the payload as it stands: no lstrip, no lower.
LooksLikeHtmlExact(data) ==
    StartsWith(data, "<!doctype html") \/ StartsWith(data, "<html")

LooksLikeHtml(data) ==
    \/ StartsWith(Lower(LStrip(data, Whitespace)), "<!doctype html")
    \/ StartsWith(Lower(LStrip(data, Whitespace)), "<html")

\* base_name and file_name of the offered file
FileName(u, selected_option, fetched) ==
    LET from_ytdlp == IF selected_option.type = "ytdlp" /\ fetched.name # ""
                      THEN Or(splitext(fetched.name)[1], "video")
                      ELSE IF selected_option.type = "ytdlp" THEN "video" ELSE ""
        base_name  == IF from_ytdlp # "" THEN from_ytdlp
                      ELSE Or(splitext(basename(UrlPath(u)))[1], "video")
    IN  base_name \o "." \o selected_option.extension

\* if st.button("Skachat video"): ...   (pick: the entry the user chose in the select box)
DownloadHandler(u, pick, e) ==
    /\ url' = u
    /\ env' = e
    /\ action' = "download"
    /\ selected_index' = IF download_options = <<>> THEN 0 ELSE pick
    /\ UNCHANGED <<use_ytdlp, download_options>>
    /\ IF u = ""
       THEN /\ message' = "URL must not be empty"
            /\ requests' = <<>>
            /\ result' = NoResult
            /\ offered' = NoFile
       ELSE IF ~ValidScheme(u)
       THEN /\ message' = "URL must start with http:// or https://"
            /\ requests' = <<>>
            /\ result' = NoResult
            /\ offered' = NoFile
       ELSE IF download_options = <<>>
       THEN /\ message' = "inspect the link first"
            /\ requests' = <<>>
            /\ result' = NoResult
            /\ offered' = NoFile
       ELSE \E selected_option \in {SelectedOption(download_options, download_options[pick].label)} :
            \E fetched \in {Fetch(selected_option, e)} :
                /\ result' = fetched
                /\ requests' = fetched.requests
                /\ message' = IF fetched.raised
                              THEN (IF selected_option.type = "ytdlp" THEN "unexpected error" ELSE "request error")
                              ELSE IF fetched.none THEN "download failed: bad status"
                              ELSE IF LooksLikeHtml(fetched.data) THEN "HTML page instead of video"
                              ELSE "file loaded"
                /\ offered' = IF ~fetched.raised /\ ~fetched.none /\ ~LooksLikeHtml(fetched.data)
                              THEN [present |-> TRUE, data |-> fetched.data,
                                    file_name |-> FileName(u, selected_option, fetched),
                                    mime |-> selected_option.mime]
                              ELSE NoFile

----------------------------------------------------------------------------
(* The outside world: HTML pages, playlists, responses *)

Attr(k, v) == [key |-> k, val |-> v]

Tag(name, attrs) == [name |-> name, attrs |-> attrs]

RECURSIVE RenderAttrs(_)
RenderAttrs(attrs) ==
    IF attrs = <<>> THEN ""
    ELSE " " \o Head(attrs).key \o "=\"" \o Head(attrs).val \o "\"" \o RenderAttrs(Tail(attrs))

RECURSIVE Render(_)
Render(page) ==
    IF page = <<>> THEN ""
    ELSE "<" \o Head(page).name \o RenderAttrs(Head(page).attrs) \o ">" \o Render(Tail(page))

TagSet ==
    { Tag("video", <<Attr("src", "a.mp4")>>),
      Tag("a", <<Attr("href", "b.m3u8")>>),
      Tag("source", <<Attr("src", "/v/a.mp4")>>),
      Tag("a", <<Attr("href", "http://c/C.MOV?x=1")>>),
      Tag("a", <<Attr("class", "x"), Attr("href", "z.mp4")>>),
      Tag("a", <<Attr("href", "next.html")>>),
      Tag("img", <<Attr("src", "a.jpg")>>),
      Tag("video", <<Attr("src", "a.mp4"), Attr("data-src", "y.ts")>>),
      Tag("embed", <<Attr("type", "video/mp4"), Attr("src", "e.avi")>>),
      Tag("area", <<Attr("href", "m.mkv")>>) }

Pages == UNION {[1..n -> TagSet] : n \in 0..MaxTags}

BaseUrls == {"http://h/v/page", "https://h"}

Resp(status, ctype, body) == [status |-> status, ctype |-> ctype, body |-> body]

CTypes == {"", "video/mp4", "text/html; charset=utf-8", "application/vnd.apple.mpegurl",
           "Application/X-MPEGURL", "text/html; x=mpegurl"}

StreamInfs ==
    { <<"#EXT-X-STREAM-INF:BANDWIDTH=1,RESOLUTION=4x3", "lo/i.m3u8">>,
      <<"#EXT-X-STREAM-INF:RESOLUTION=4x3,CODECS=\"a,b\"", " /hi.m3u8 ">>,
      <<"#EXT-X-STREAM-INF:BANDWIDTH=3", "http://c/x.m3u8?k=1">> }

RECURSIVE JoinVariants(_)
JoinVariants(vs) ==
    IF vs = <<>> THEN "" ELSE Head(vs)[1] \o "\n" \o Head(vs)[2] \o "\n" \o JoinVariants(Tail(vs))

MasterPlaylists ==
    {"#EXTM3U\n" \o JoinVariants(vs) :
        vs \in {v \in UNION {[1..n -> StreamInfs] : n \in 1..MaxVariants} :
                    \A i, j \in DOMAIN v : v[i] = v[j] => i = j}}

MediaPlaylists ==
    { "#EXTM3U\n#EXTINF:4,\ns1.ts\n\n/abs/s2.ts\n",
      "#EXTM3U\r\n#EXTINF:4,\r\n s1.ts \r\ns2.ts\r\nhttp://c/s3.ts",
      "#EXTM3U\n#EXT-X-ENDLIST\n",
      "" }

BrokenPlaylists ==
    { "#EXTM3U\n#EXT-X-STREAM-INF:RESOLUTION=4x3",
      "#EXT-X-STREAM-INF:RESOLUTION=4x3\n#EXT-X-STREAM-INF:RESOLUTION=1x1\nv.m3u8\n" }

HtmlBodies ==
    { Render(<<Tag("video", <<Attr("src", "a.mp4")>>), Tag("a", <<Attr("href", "b.m3u8")>>)>>),
      Render(<<Tag("a", <<Attr("href", "a.mp4")>>), Tag("a", <<Attr("href", "/b.mp4")>>)>>),
      Render(<<Tag("a", <<Attr("href", "next.html")>>)>>) }

ContentBodies == MasterPlaylists \cup MediaPlaylists \cup BrokenPlaylists \cup HtmlBodies

\* Answers to the probe: HEAD, and the GET that follows a 405.
ProbeNets ==
    {<<Resp(200, ct, "")>> : ct \in CTypes}
    \cup {<<Resp(206, "video/mp4", "")>>, <<Resp(404, "", "")>>}
    \cup {<<Resp(405, "", ""), Resp(200, ct, "")>> : ct \in {"text/html; charset=utf-8", "Application/X-MPEGURL"}}
    \cup {<<Resp(405, "", ""), Resp(500, "", "")>>, <<Resp(405, "", "")>>}

InspectNets ==
    {<<>>} \cup ProbeNets
    \cup {p \o <<Resp(200, "", b)>> : p \in ProbeNets, b \in ContentBodies}
    \cup {p \o <<Resp(404, "", "")>> : p \in ProbeNets}

InspectUrls == {"http://h/v/a.mp4", "http://h/v/p.m3u8", "https://h/v/p.m3u8?t=1",
                "https://h/v/page", "http://h/v/a.MOV"}

Fmt(id, ext, vcodec, acodec, resolution, note) ==
    [format_id |-> id, ext |-> ext, vcodec |-> vcodec, acodec |-> acodec,
     resolution |-> resolution, format_note |-> note]

NoYtdlp == [installed |-> FALSE, raises |-> FALSE, formats |-> <<>>, prepared |-> "", files |-> <<>>]

Ytdlp(raises, formats, prepared, files) ==
    [installed |-> TRUE, raises |-> raises, formats |-> formats, prepared |-> prepared, files |-> files]

Formats ==
    { <<>>,
      <<Fmt("137", "mp4", "avc1", "none", "1920x1080", "")>>,
      <<Fmt("18", "mp4", "avc1", "mp4a", "640x360", ""), Fmt("22", "", "avc1", "mp4a", "", "720p")>>,
      <<Fmt("18", "mp4", "avc1", "mp4a", "640x360", ""), Fmt("18", "mp4", "avc1", "mp4a", "640x360", "")>> }

\* What the extractor may do when asked for the formats of a URL.
YtdlpListings == {NoYtdlp, Ytdlp(TRUE, <<>>, "", <<>>)} \cup {Ytdlp(FALSE, f, "", <<>>) : f \in Formats}

FileBodies == {"AAAAA", " \n", "<HTML>x", "", "\t<!DOCTYPE html>", "x<html"}

File(name, data) == [name |-> name, data |-> data]

\* What the extractor may do when asked to download a format.
YtdlpDownloads ==
    {NoYtdlp, Ytdlp(TRUE, <<>>, "", <<>>), Ytdlp(FALSE, <<>>, "clip.mp4", <<>>)}
    \cup {Ytdlp(FALSE, <<>>, "clip.mp4", <<File(n, d)>>) : n \in {"clip.mp4", ".webm"}, d \in FileBodies}

\* Answers to the GET of a direct file.
FileNets == {<<>>, <<Resp(404, "", "")>>} \cup {<<Resp(200, "", b)>> : b \in FileBodies}

SegmentResps == {Resp(404, "", "")} \cup {Resp(200, "", b) : b \in {"AAAAA", " \n", "<HTML>x"}}

\* Answers to the segment GETs of one download: none follows an answer that is not 200.
SegmentNets ==
    {segs \in UNION {[1..n -> SegmentResps] : n \in 0..MaxSegs} :
        \A i \in 1..(Len(segs) - 1) : segs[i].status = 200}

\* Answers to the GETs of an HLS download: the playlist, then the segments.
HlsNets ==
    {<<>>, <<Resp(404, "", "")>>} \cup {<<Resp(200, "", p)>> \o segs : p \in MediaPlaylists, segs \in SegmentNets}

Env(net, ytdlp) == [net |-> net, ytdlp |-> ytdlp]

\* The HTTP requests among reqs (their positions).
HttpRequests(reqs) == {i \in DOMAIN reqs : reqs[i].method # "YTDLP"}

\* The environment holds nothing the action did not ask for: no answer beyond
\* the requests sent, and no extractor behaviour when no extractor was called.
Exact(e, reqs) ==
    /\ Len(e.net) <= Cardinality(HttpRequests(reqs))
    /\ e.ytdlp # NoYtdlp => \E i \in DOMAIN reqs : reqs[i].method = "YTDLP"

----------------------------------------------------------------------------
(* Spec: a session, any sequence of the two user actions *)

SessionUrls == {"", "ftp://h/a.mp4", "http://h/v/page", "http://h/v/p.m3u8"}

SessionInspectNets ==
    { <<>>,
      <<Resp(404, "", "")>>,
      <<Resp(200, "video/mp4", "")>>,
      <<Resp(200, "text/html; charset=utf-8", ""), Resp(404, "", "")>>,
      <<Resp(200, "text/html; charset=utf-8", ""),
        Resp(200, "", Render(<<Tag("a", <<Attr("href", "a.mp4")>>), Tag("a", <<Attr("href", "/b.mp4")>>)>>))>>,
      <<Resp(200, "text/html; charset=utf-8", ""),
        Resp(200, "", Render(<<Tag("a", <<Attr("href", "next.html")>>)>>))>>,
      <<Resp(200, "application/vnd.apple.mpegurl", ""),
        Resp(200, "", "#EXTM3U\n" \o JoinVariants(<<
            <<"#EXT-X-STREAM-INF:BANDWIDTH=1,RESOLUTION=4x3", "lo/i.m3u8">>,
            <<"#EXT-X-STREAM-INF:RESOLUTION=4x3,CODECS=\"a,b\"", " /hi.m3u8 ">> >>))>> }

SessionInspectEnvs ==
    {Env(n, NoYtdlp) : n \in SessionInspectNets} \cup {Env(<<>>, y) : y \in YtdlpListings}

SessionDownloadNets ==
    { <<>>,
      <<Resp(404, "", "")>>,
      <<Resp(200, "", "AAAAA")>>,
      <<Resp(200, "", " \n<HTML>x")>>,
      <<Resp(200, "", "#EXTM3U\n#EXTINF:4,\ns1.ts\n\n/abs/s2.ts\n"), Resp(200, "", "AAAAA"), Resp(200, "", "AAAAA")>>,
      <<Resp(200, "", "#EXTM3U\n#EXTINF:4,\ns1.ts\n\n/abs/s2.ts\n"), Resp(200, "", "AAAAA"), Resp(404, "", "")>> }

SessionDownloadEnvs ==
    {Env(n, NoYtdlp) : n \in SessionDownloadNets}
    \cup {Env(<<>>, y) : y \in {Ytdlp(TRUE, <<>>, "", <<>>), Ytdlp(FALSE, <<>>, "clip.mp4", <<>>),
                                Ytdlp(FALSE, <<>>, "clip.mp4", <<File("clip.mp4", "AAAAA")>>),
                                Ytdlp(FALSE, <<>>, "clip.mp4", <<File("clip.mp4", "<HTML>x")>>)}}

Init ==
    /\ url = ""
    /\ use_ytdlp = FALSE
    /\ download_options = <<>>
    /\ selected_index = 0
    /\ env = Env(<<>>, NoYtdlp)
    /\ requests = <<>>
    /\ result = NoResult
    /\ message = ""
    /\ offered = NoFile
    /\ action = "start"

Picks(options) == IF options = <<>> THEN {0} ELSE DOMAIN options

Inspect ==
    \E u \in SessionUrls, yt \in BOOLEAN, e \in SessionInspectEnvs :
        /\ InspectHandler(u, yt, e)
        /\ Exact(e, requests')

Download ==
    \E u \in SessionUrls, pick \in Picks(download_options), e \in SessionDownloadEnvs :
        /\ DownloadHandler(u, pick, e)
        /\ Exact(e, requests')

Next == Inspect \/ Download

Spec == Init /\ [][Next]_vars

----------------------------------------------------------------------------
(* SpecInspect: inspect_url on one URL and one set of answers *)

InitInspect ==
    /\ url \in InspectUrls
    /\ use_ytdlp = FALSE
    /\ download_options = <<>>
    /\ selected_index = 0
    /\ env \in {Env(n, NoYtdlp) : n \in InspectNets}
    /\ \E r \in {inspect_url(url, env.net)} : Exact(env, r.requests)
    /\ requests = <<>>
    /\ result = NoResult
    /\ message = ""
    /\ offered = NoFile
    /\ action = "args"

InspectCall == action = "args" /\ InspectHandler(url, use_ytdlp, env)

SpecInspect == InitInspect /\ [][InspectCall]_vars

----------------------------------------------------------------------------
(* SpecDownload: the download action on one stored option list, one choice  *)
(* of the user and one set of answers                                       *)

\* Option lists an inspection stores in the session.
OptionLists ==
    ({inspect_url(u, n).options : u \in {"http://h/v/page"}, n \in SessionInspectNets}
     \cup {inspect_url(u, <<Resp(200, "Application/X-MPEGURL", ""), Resp(200, "", p)>>).options :
             u \in {"http://h/v/p.m3u8"}, p \in MediaPlaylists \cup BrokenPlaylists}
     \cup {get_ytdlp_options("https://h/watch", y).options : y \in YtdlpListings})
    \ {<<>>}

DownloadUrls == {"", "ftp://h/a.mp4", "https://h/v/clip.page.html?x=1", "http://h"}

\* What the world may answer to the download of one option.
DownloadEnvs(u, selected_option) ==
    IF u = "" \/ ~ValidScheme(u) THEN {Env(<<>>, NoYtdlp)}
    ELSE IF selected_option.type = "ytdlp" THEN {Env(<<>>, y) : y \in YtdlpDownloads}
    ELSE IF selected_option.type = "hls" THEN {Env(n, NoYtdlp) : n \in HlsNets}
    ELSE {Env(n, NoYtdlp) : n \in FileNets}

InitDownload ==
    /\ url \in DownloadUrls
    /\ use_ytdlp = FALSE
    /\ download_options \in OptionLists
    /\ selected_index \in Picks(download_options)
    /\ \E selected_option \in {SelectedOption(download_options, download_options[selected_index].label)} :
          /\ env \in DownloadEnvs(url, selected_option)
          /\ ValidScheme(url) => \E fetched \in {Fetch(selected_option, env)} : Exact(env, fetched.requests)
    /\ requests = <<>>
    /\ result = NoResult
    /\ message = ""
    /\ offered = NoFile
    /\ action = "args"

DownloadCall == action = "args" /\ DownloadHandler(url, selected_index, env)

SpecDownload == InitDownload /\ [][DownloadCall]_vars

----------------------------------------------------------------------------
(* SpecExtract: extract_video_links on one page and one base URL *)

InitExtract ==
    /\ url \in BaseUrls
    /\ use_ytdlp = FALSE
    /\ download_options = <<>>
    /\ selected_index = 0
    /\ env \in {[page |-> p] : p \in Pages}
    /\ requests = <<>>
    /\ result = NoResult
    /\ message = ""
    /\ offered = NoFile
    /\ action = "args"

ExtractCall ==
    /\ action = "args"
    /\ result' = extract_video_links(Render(env.page), url)
    /\ action' = "extract_video_links"
    /\ UNCHANGED <<url, use_ytdlp, download_options, selected_index, env, requests, message, offered>>

SpecExtract == InitExtract /\ [][ExtractCall]_vars

----------------------------------------------------------------------------
(* Properties *)

\* The option the download action fetched: the first one carrying the label the
\* user picked.
Chosen == SelectedOption(download_options, download_options[selected_index].label)

Fetched == action = "download" /\ result # NoResult

\* The response whose Content-Type inspect_url reads.
Probe == IF env.net[1].status = 405 THEN env.net[2] ELSE env.net[1]

Probed ==
    /\ action = "inspect" /\ ~use_ytdlp /\ result # NoResult /\ ~result.raised
    /\ Len(env.net) >= 1
    /\ env.net[1].status \in {200, 206, 405}
    /\ env.net[1].status = 405 => Len(env.net) >= 2 /\ env.net[2].status = 200

\* inspect_url went on to fetch the URL as a playlist and got it.
PlaylistFetched ==
    /\ Probed
    /\ ~Contains(Lower(Probe.ctype), "text/html")
    /\ Len(requests) = (IF env.net[1].status = 405 THEN 3 ELSE 2)
    /\ Len(env.net) = Len(requests)
    /\ env.net[Len(env.net)].status = 200

PlaylistLines == SplitLines(env.net[Len(env.net)].body)

StreamInfLines == {i \in DOMAIN PlaylistLines : StartsWith(PlaylistLines[i], "#EXT-X-STREAM-INF")}

\* The j-th "#EXT-X-STREAM-INF" line of the playlist.
StreamInfLine(j) == CHOOSE i \in StreamInfLines : Cardinality({m \in StreamInfLines : m <= i}) = j

\* C1: an action on an empty URL, or on one that starts with neither "http://"
\* nor "https://", ends with its rejection message and has sent no HTTP request
\* and called no extractor, whatever the stored option list holds.
C1_RejectedBeforeNetwork ==
    (action \in {"inspect", "download"} /\ (url = "" \/ ~(StartsWith(url, "http://") \/ StartsWith(url, "https://"))))
    => /\ requests = <<>>
       /\ result = NoResult
       /\ offered = NoFile
       /\ message = IF url = "" THEN "URL must not be empty" ELSE "URL must start with http:// or https://"

C1_Witness ==
    /\ action = "download" /\ url = "ftp://h/a.mp4" /\ download_options # <<>>
    /\ requests = <<>> /\ message = "URL must start with http:// or https://"

\* C2: a download whose fetched buffer, leading whitespace stripped and lower-cased,
\* begins with "<html" or "<!doctype html" ends with the HTML error and offers no file.
C2_HtmlPayloadRejected ==
    (/\ Fetched /\ ~result.raised /\ ~result.none
     /\ \/ StartsWith(Lower(LStrip(result.data, Whitespace)), "<html")
        \/ StartsWith(Lower(LStrip(result.data, Whitespace)), "<!doctype html"))
    => message = "HTML page instead of video" /\ offered = NoFile

C2_Witness ==
    /\ Fetched /\ Chosen.type = "hls"
    /\ \A i \in DOMAIN env.net : env.net[i].status = 200
    /\ result.data = " \n<HTML>xAAAAA"
    /\ message = "HTML page instead of video" /\ offered = NoFile

\* An HLS download that got its playlist.
HlsFetched ==
    /\ Fetched /\ Chosen.type = "hls"
    /\ Len(env.net) >= 1 /\ env.net[1].status = 200

\* Positions of the playlist lines that name a segment: not empty, no "#" in front.
SegmentLines ==
    LET lines == SplitLines(env.net[1].body)
    IN  {i \in DOMAIN lines : lines[i] # "" /\ ~StartsWith(lines[i], "#")}

\* The URL of the j-th segment: its line resolved against the playlist URL.
SegmentUrl(j) ==
    LET lines == SplitLines(env.net[1].body)
        i     == CHOOSE n \in SegmentLines : Cardinality({m \in SegmentLines : m <= n}) = j
    IN  urljoin(Chosen.url, Strip(lines[i]))

\* Length of the bodies of segments 1..j together.
RECURSIVE BodiesLen(_)
BodiesLen(j) == IF j = 0 THEN 0 ELSE BodiesLen(j - 1) + Len(env.net[j + 1].body)

AllSegmentsFetched ==
    /\ HlsFetched
    /\ SegmentLines # {}
    /\ Len(env.net) = Cardinality(SegmentLines) + 1
    /\ \A i \in DOMAIN env.net : env.net[i].status = 200

\* C4: when the playlist names N segments and all are fetched with status 200,
\* download_hls_playlist returns their bodies concatenated in playlist order:
\* segment j occupies the bytes after those of segments 1..j-1, the length is
\* the sum of the sizes, and the first bytes are segment 1's body.
C4_HlsConcatenation ==
    AllSegmentsFetched
    => /\ ~result.none /\ ~result.raised
       /\ Len(result.data) = BodiesLen(Cardinality(SegmentLines))
       /\ Slice(result.data, 1, Len(env.net[2].body)) = env.net[2].body
       /\ \A j \in 1..Cardinality(SegmentLines) :
             Slice(result.data, BodiesLen(j - 1) + 1, BodiesLen(j)) = env.net[j + 1].body

C4_Witness ==
    /\ AllSegmentsFetched
    /\ Cardinality(SegmentLines) = 3
    /\ result.data = "AAAAA \n<HTML>x"

\* C5: in an HLS download the segments are requested one at a time in playlist
\* order; when the GET of segment k is the first not answered 200, the requests
\* end with that GET, no data is returned, and the action reports the failure
\* and offers no file.
C5_HlsAbortsOnFailedSegment ==
    HlsFetched
    => /\ requests[1] = GetReq(Chosen.url)
       /\ Len(requests) <= Cardinality(SegmentLines) + 1
       /\ \A j \in 1..(Len(requests) - 1) : requests[j + 1] = GetReq(SegmentUrl(j))
       /\ \A k \in 1..Cardinality(SegmentLines) :
             (/\ Len(env.net) >= k + 1
              /\ env.net[k + 1].status # 200
              /\ \A j \in 1..(k - 1) : env.net[j + 1].status = 200)
             => /\ Len(requests) = k + 1
                /\ result.none /\ result.data = "" /\ ~result.raised
                /\ message = "download failed: bad status"
                /\ offered = NoFile

C5_Witness ==
    /\ HlsFetched
    /\ Cardinality(SegmentLines) = 3
    /\ Len(env.net) = 3 /\ env.net[2].status = 200 /\ env.net[2].body = "AAAAA" /\ env.net[3].status = 404
    /\ requests = <<GetReq("http://h/v/p.m3u8"), GetReq("http://h/v/s1.ts"), GetReq("http://h/v/s2.ts")>>
    /\ result.none /\ offered = NoFile

\* C3 (as claimed): when the probe's Content-Type contains "mpegurl" or the path
\* of the URL ends in ".m3u8", every option inspect_url returns has type "hls".
C3_M3u8AlwaysHls ==
    (/\ Probed
     /\ Contains(Lower(Probe.ctype), "mpegurl") \/ EndsWith(UrlPath(url), ".m3u8"))
    => \A i \in DOMAIN result.options : result.options[i].type = "hls"

\* C6: a fetched playlist with k >= 1 "#EXT-X-STREAM-INF" lines, each with a
\* RESOLUTION= attribute and each followed by a variant URL line, yields exactly
\* k options, in playlist order, of type "hls", whose URLs are the variant lines
\* resolved against the playlist URL.
C6_OneOptionPerVariant ==
    (/\ PlaylistFetched
     /\ StreamInfLines # {}
     /\ \A i \in StreamInfLines :
          /\ Contains(PlaylistLines[i], "RESOLUTION=")
          /\ i + 1 <= Len(PlaylistLines)
          /\ PlaylistLines[i + 1] # "" /\ ~StartsWith(PlaylistLines[i + 1], "#"))
    => /\ result.error = ""
       /\ Len(result.options) = Cardinality(StreamInfLines)
       /\ \A j \in DOMAIN result.options :
             /\ result.options[j].url = urljoin(url, Strip(PlaylistLines[StreamInfLine(j) + 1]))
             /\ result.options[j].type = "hls"
       /\ download_options = result.options

C6_Witness ==
    /\ PlaylistFetched
    /\ url = "http://h/v/p.m3u8"
    /\ Cardinality(StreamInfLines) = 2
    /\ \A i \in StreamInfLines : Contains(PlaylistLines[i], "RESOLUTION=")
    /\ Len(result.options) = 2
    /\ result.options[1].url = "http://h/v/lo/i.m3u8"
    /\ result.options[2].url = "http://h/hi.m3u8"

\* C7: a fetched playlist without any "#EXT-X-STREAM-INF" line yields exactly one
\* option, of type "hls", whose URL is the playlist URL, and no error.
C7_FallbackOption ==
    (PlaylistFetched /\ StreamInfLines = {})
    => /\ result.error = "" /\ ~result.raised
       /\ Len(result.options) = 1
       /\ result.options[1].url = url
       /\ result.options[1].type = "hls"
       /\ message = "formats determined"

C7_Witness ==
    /\ PlaylistFetched /\ StreamInfLines = {}
    /\ Len(PlaylistLines) = 5
    /\ url = "https://h/v/page"
    /\ Len(result.options) = 1 /\ result.options[1].url = "https://h/v/page"

\* The links the claim C8 speaks of: the src attributes of video and source
\* tags and the href attributes of a tags, resolved against the base URL.
TagLinks(page, base_url) ==
    {urljoin(base_url, page[i].attrs[k].val) :
        <<i, k>> \in {<<i, k>> \in (DOMAIN page) \X (1..2) :
            /\ k \in DOMAIN page[i].attrs
            /\ \/ page[i].name \in {"video", "source"} /\ page[i].attrs[k].key = "src"
               \/ page[i].name = "a" /\ page[i].attrs[k].key = "href"}}

\* C8 (as claimed): extract_video_links returns one option per distinct resolved
\* link of those tags whose extension is allowed, ordered by URL, an m3u8 link
\* as "hls" and any other as "direct" with its extension.
C8_OneOptionPerTagLink ==
    action = "extract_video_links" => result = LinkOptions(Sorted(TagLinks(env.page, url)))

\* C9 (as claimed): after an inspect action the stored list holds exactly the
\* options this inspection produced, none when it was rejected or failed.
C9_ListRebuiltOnInspect ==
    action = "inspect"
    => download_options = IF result # NoResult /\ ~result.raised /\ result.error = ""
                          THEN result.options ELSE <<>>

\* C10 (as claimed): the download action fetches the very option the user picked
\* in the select box and names the file with that option's extension and mime.
C10_FetchesPickedOption ==
    Fetched
    => /\ requests # <<>> => requests[1].url = download_options[selected_index].url
       /\ Chosen = download_options[selected_index]
       /\ offered # NoFile => offered.mime = download_options[selected_index].mime

====
